---- MODULE Spec2Model ----
(***************************************************************************)
(* Model of the game engine of src/game.c: the base, the projectile list,  *)
(* the asteroid list, and the public operations initialise_game,           *)
(* move_base, fire_projectile, advance_projectiles and advance_asteroids.  *)
(*                                                                         *)
(* The C arrays projectiles[] and asteroids[] are modelled by their live   *)
(* prefix, a function on 0..num-1: every loop and redraw of game.c is      *)
(* bounded by the count, so a slot at or beyond the count is never read.   *)
(* Positions are the packed bytes of GAME_POSITION.                        *)
(*                                                                         *)
(* The collaborators that are not in game.c are modelled at their          *)
(* interface: the renderer as the sequence of calls made to it by the      *)
(* last operation, the score/lives store as two integer counters, the      *)
(* random source as a nondeterministic choice. The audio cues and the      *)
(* terminal's display mode carry no state of the engine and are left out.  *)
(***************************************************************************)
EXTENDS Integers, Sequences, FiniteSets, TLC

\* ------------------------------------------------------------------ sizes
\* game.c:33, game.c:245 (basePosition == 7): columns 0..7.
FIELD_WIDTH == 8
\* Rows of the field. game.h sets 16; the model is checked on a lower field.
FIELD_HEIGHT == 5
\* Capacities of the two lists (game.h); the model is checked on short lists.
MAX_PROJECTILES == 2
MAX_ASTEROIDS == 2
\* game.c:215: the attempt counter of the spawn loop is compared to 8*16.
SPAWN_ATTEMPT_LIMIT == 128
\* game.c:183: add_asteroid spawns in rows >= 3.
INITIAL_BLOCKED_ROWS == 3
\* game.c:165: the base starts in column 3.
BASE_START == 3
\* game.c:277: a projectile is fired into row 2.
FIRE_ROW == 2
\* game.c:239-240
MOVE_LEFT == 0
MOVE_RIGHT == 1

\* The columns random() % FIELD_WIDTH yields in the model.
RandXFirst == 3
RandXCount == 2
RandXs == { x \in 0..(FIELD_WIDTH - 1) : x >= RandXFirst /\ x < RandXFirst + RandXCount }
\* spi.c:10: uint8_t buffer[255].
SPI_BUFFER_SIZE == 255
\* The most bytes the model hands to spi_send_byte after one start_spi_buffer
\* while buffering, and the most it hands over while not buffering.
MaxBurst == 257
MaxUnbuffered == 2
\* The lives the store starts with, and the score at which the model stops.
InitLives == 1
MaxScore == 2

VARIABLES basePosition, numProjectiles, projectiles, numAsteroids, asteroids,
          paused, score, lives

\* The globals of src/spi.c, and what a test of the byte buffer observes: the
\* bytes handed to spi_send_byte and the bytes written to the SPI data register
\* (both since the last start_spi_buffer), whether a byte was stored outside
\* buffer[], where the buffer is in its cycle, and how many bytes were handed
\* over since the buffer was last flushed.
VARIABLES buffer, bufferIndex, buffering, sent, wire, stray, phase, direct

spiVars == <<buffer, bufferIndex, buffering, sent, wire, stray, phase, direct>>

vars == <<basePosition, numProjectiles, projectiles, numAsteroids, asteroids,
          paused, score, lives, spiVars>>

\* ------------------------------------------------------------- positions
U8(v) == v % 256

\* A packing that keeps three bits of x only: column 8 packs as column 0 and
\* column -1 as column 7.
GAME_POSITION_ThreeBitX(x, y) == (((U8(x) % 8) * 16) + (U8(y) % 16)) % 256

\* ( ((x) << 4)|((y) & 0x0F) ) stored in a uint8_t; x and y are uint8_t.
GAME_POSITION(x, y) == ((U8(x) * 16) + (U8(y) % 16)) % 256
GET_X_POSITION(posn) == posn \div 16
GET_Y_POSITION(posn) == posn % 16

\* ------------------------------------------------------- the engine state
\* The engine's globals and the store's counters as one record, threaded
\* through the helpers in the order the C statements run. Its field render
\* collects, in order, the calls the running operation makes to the renderer;
\* an operation starts with none made.
Here == [basePosition |-> basePosition, numProjectiles |-> numProjectiles,
         projectiles |-> projectiles, numAsteroids |-> numAsteroids,
         asteroids |-> asteroids, paused |-> paused, score |-> score,
         lives |-> lives, render |-> <<>>]

Is(s) ==
    /\ basePosition = s.basePosition
    /\ numProjectiles = s.numProjectiles
    /\ projectiles = s.projectiles
    /\ numAsteroids = s.numAsteroids
    /\ asteroids = s.asteroids
    /\ paused = s.paused
    /\ score = s.score
    /\ lives = s.lives

Became(s) ==
    /\ basePosition' = s.basePosition
    /\ numProjectiles' = s.numProjectiles
    /\ projectiles' = s.projectiles
    /\ numAsteroids' = s.numAsteroids
    /\ asteroids' = s.asteroids
    /\ paused' = s.paused
    /\ score' = s.score
    /\ lives' = s.lives

\* Store v in slot i of an array whose live slots are DOMAIN arr.
Store(arr, i, v) == [j \in (DOMAIN arr) \cup {i} |-> IF j = i THEN v ELSE arr[j]]
\* The slots 0..n-1 of an array.
Prefix(arr, n) == [j \in 0..(n - 1) |-> arr[j]]

\* ------------------------------------------------------------- renderer
Call(s, name) == [s EXCEPT !.render = Append(@, name)]
new_frame(s) == Call(s, "new_frame")
draw_frame(s) == Call(s, "draw_frame")
reset_frame(s) == Call(s, "reset_frame")
set_pixel(s) == Call(s, "set_pixel")

\* ---------------------------------------------------------- score store
add_to_score(s, d) == [s EXCEPT !.score = @ + d]
change_lives(s, d) == [s EXCEPT !.lives = @ + d]
get_lives(s) == s.lives

\* ------------------------------------------------------ occupancy queries
\* The first index i < n with arr[i] = posn, or -1.
FirstAt(arr, n, posn) ==
    LET hits == { i \in 0..(n - 1) : arr[i] = posn }
    IN  IF hits = {} THEN -1 ELSE CHOOSE i \in hits : \A j \in hits : i <= j

\* The arguments are converted to uint8_t at the call.
asteroid_at(s, x, y) == FirstAt(s.asteroids, s.numAsteroids, GAME_POSITION(x, y))
projectile_at(s, x, y) == FirstAt(s.projectiles, s.numProjectiles, GAME_POSITION(x, y))

\* ---------------------------------------------------------------- redraw
redraw_asteroid(s, asteroidNumber) ==
    IF asteroidNumber < s.numAsteroids THEN set_pixel(s) ELSE s

redraw_projectile(s, projectileNumber) ==
    IF projectileNumber < s.numProjectiles THEN set_pixel(s) ELSE s

RECURSIVE RedrawFrom(_, _, _)
\* set_pixel once for each index i..n-1.
RedrawFrom(s, i, n) == IF i < n THEN RedrawFrom(set_pixel(s), i + 1, n) ELSE s

redraw_all_asteroids(s) == RedrawFrom(s, 0, s.numAsteroids)
redraw_all_projectiles(s) == RedrawFrom(s, 0, s.numProjectiles)

\* One set_pixel for each of the three bottom cells that is in the field, one
\* for the cell above the centre, then print_terminal_buffer.
redraw_base(s) ==
    LET inField == { x \in (s.basePosition - 1)..(s.basePosition + 1) :
                        x >= 0 /\ x < FIELD_WIDTH }
        bottom == RedrawFrom(s, 0, Cardinality(inField))
    IN  Call(set_pixel(bottom), "print_terminal_buffer")

redraw_whole_display(s) ==
    redraw_all_projectiles(redraw_all_asteroids(redraw_base(Call(s, "ledmatrix_clear"))))

\* --------------------------------------------------------------- removal
\* asteroids[i-1] = asteroids[i] for i = k+1 .. n-1, then the count drops.
ShiftDown(arr, n, k) ==
    [j \in 0..(n - 2) |-> IF j < k THEN arr[j] ELSE arr[j + 1]]

\* remove_asteroid that fills the gap with the last asteroid instead of
\* shifting the later ones down.
remove_asteroid_SwapLast(s, asteroidNumber) ==
    IF asteroidNumber < 0 \/ asteroidNumber >= s.numAsteroids
    THEN s
    ELSE LET d == redraw_asteroid(s, asteroidNumber)
             last == s.asteroids[s.numAsteroids - 1]
         IN  [d EXCEPT !.asteroids = Prefix(Store(@, asteroidNumber, last),
                                            s.numAsteroids - 1),
                       !.numAsteroids = @ - 1]

remove_asteroid(s, asteroidNumber) ==
    IF asteroidNumber < 0 \/ asteroidNumber >= s.numAsteroids
    THEN s
    ELSE LET d == redraw_asteroid(s, asteroidNumber)
         IN  [d EXCEPT !.asteroids = ShiftDown(@, s.numAsteroids, asteroidNumber),
                       !.numAsteroids = @ - 1]

remove_projectile(s, projectileNumber) ==
    IF projectileNumber < 0 \/ projectileNumber >= s.numProjectiles
    THEN s
    ELSE LET d == redraw_projectile(s, projectileNumber)
         IN  [d EXCEPT !.projectiles = ShiftDown(@, s.numProjectiles, projectileNumber),
                       !.numProjectiles = @ - 1]

\* -------------------------------------------------------------- collision
\* check_asteroid_hit without add_to_score(1).
check_asteroid_hit_NoScore(s, projectileIndex, asteroidHit) ==
    IF projectileIndex = -1 \/ asteroidHit = -1
    THEN <<s, 0>>
    ELSE <<remove_asteroid(remove_projectile(s, projectileIndex), asteroidHit), 1>>

\* The pair <<state, return value>>.
check_asteroid_hit(s, projectileIndex, asteroidHit) ==
    IF projectileIndex = -1 \/ asteroidHit = -1
    THEN <<s, 0>>
    ELSE <<add_to_score(remove_asteroid(remove_projectile(s, projectileIndex),
                                        asteroidHit), 1), 1>>

check_base_hit(s, x, y) ==
    LET asteroid == asteroid_at(s, x, y)
    IN  IF asteroid = -1
        THEN s
        ELSE change_lives(remove_asteroid(s, asteroid), -1)

\* check_all_base_hits without its last call, check_base_hit(basePosition+1, 0).
check_all_base_hits_ThreeCells(s) ==
    LET a == check_base_hit(s, s.basePosition, 1)
        b == check_base_hit(a, a.basePosition - 1, 0)
    IN  check_base_hit(b, b.basePosition, 0)

check_all_base_hits(s) ==
    LET a == check_base_hit(s, s.basePosition, 1)
        b == check_base_hit(a, a.basePosition - 1, 0)
        c == check_base_hit(b, b.basePosition, 0)
    IN  check_base_hit(c, c.basePosition + 1, 0)

\* ------------------------------------------------------------------ sort
RECURSIVE SortInner(_, _, _)
\* while (j > 0 && y(asteroids[j-1]) > y(temp)) { asteroids[j] = asteroids[j-1]; j--; }
\* asteroids[j] = temp;
SortInner(arr, j, temp) ==
    IF j > 0 /\ GET_Y_POSITION(arr[j - 1]) > GET_Y_POSITION(temp)
    THEN SortInner(Store(arr, j, arr[j - 1]), j - 1, temp)
    ELSE Store(arr, j, temp)

RECURSIVE SortOuter(_, _, _)
\* for (i = 1; i < numAsteroids; i++)
SortOuter(arr, i, n) ==
    IF i < n THEN SortOuter(SortInner(arr, i, arr[i]), i + 1, n) ELSE arr

\* initialise_game without its call of sort_asteroids.
sort_asteroids_Skipped(s) == s

sort_asteroids(s) == [s EXCEPT !.asteroids = SortOuter(@, 1, s.numAsteroids)]

\* ----------------------------------------------------------------- spawn
\* blockedRows + random() % (FIELD_HEIGHT - blockedRows)
RandYs(blockedRows) == blockedRows..(FIELD_HEIGHT - 1)

\* The values of the attempt counter at which the body of the do-while runs:
\* 0, and every a that each test "attempts <= 8*16" before it let through.
SpawnAttempts == { a \in 0..255 : \A b \in 1..a : b <= SPAWN_ATTEMPT_LIMIT }

\* add_asteroid_in_rows without the test asteroid_at(x, y) == -1: the first
\* sampled cell is taken, free or not.
add_asteroid_in_rows_Unchecked(s, blockedRows) ==
    IF s.numAsteroids = MAX_ASTEROIDS
    THEN {s}
    ELSE LET i == s.numAsteroids
         IN  { redraw_asteroid(
                  [s EXCEPT !.asteroids = Store(@, i, GAME_POSITION(c[1], c[2])),
                            !.numAsteroids = @ + 1], i) :
                  c \in RandXs \X RandYs(blockedRows) }

\* The set of states add_asteroid_in_rows can return in, over the outcomes of
\* random(). An iteration that samples a cell without an asteroid appends it and
\* returns; the loop gives up, with nothing changed, when every iteration (one
\* for each value of SpawnAttempts) sampled a cell that holds an asteroid.
add_asteroid_in_rows(s, blockedRows) ==
    IF s.numAsteroids = MAX_ASTEROIDS
    THEN {s}
    ELSE LET i == s.numAsteroids
             cells == RandXs \X RandYs(blockedRows)
             free == { c \in cells : asteroid_at(s, c[1], c[2]) = -1 }
             placed == { redraw_asteroid(
                            [s EXCEPT !.asteroids = Store(@, i, GAME_POSITION(c[1], c[2])),
                                      !.numAsteroids = @ + 1], i) : c \in free }
             givenUp == IF free # cells /\ SpawnAttempts # {} THEN {s} ELSE {}
         IN  placed \cup givenUp

\* The numbers of cells one call of add_asteroid_in_rows can sample. The
\* iteration with the attempt counter at a samples cell number a + 1; it is
\* reached when the a cells before it held an asteroid, and the call ends
\* there when the cell is free or the test "attempts <= 8*16" fails after it.
SampleCounts(s, blockedRows) ==
    IF s.numAsteroids = MAX_ASTEROIDS
    THEN {0}
    ELSE LET cells == RandXs \X RandYs(blockedRows)
             free == { c \in cells : asteroid_at(s, c[1], c[2]) = -1 }
             last == CHOOSE a \in SpawnAttempts : \A b \in SpawnAttempts : b <= a
             placedAt == { a \in SpawnAttempts : free # {} /\ (a = 0 \/ free # cells) }
             givenUpAt == { a \in SpawnAttempts : free # cells /\ a = last }
         IN  { a + 1 : a \in placedAt \cup givenUpAt }

add_asteroid(s) == add_asteroid_in_rows(s, INITIAL_BLOCKED_ROWS)

RECURSIVE SpawnTimes(_, _, _)
\* A loop that calls add_asteroid_in_rows(blockedRows) n times, from each state of S.
SpawnTimes(S, blockedRows, n) ==
    IF n <= 0 THEN S
    ELSE SpawnTimes(UNION { add_asteroid_in_rows(t, blockedRows) : t \in S },
                    blockedRows, n - 1)

\* add_missing_asteroids with the loop starting one too far: one asteroid
\* fewer than are missing is asked for.
add_missing_asteroids_OneShort(s) ==
    SpawnTimes({s}, FIELD_HEIGHT - 1, MAX_ASTEROIDS - s.numAsteroids - 1)

\* for (i = numAsteroids; i < MAX_ASTEROIDS; i++) add_asteroid_in_rows(FIELD_HEIGHT-1);
add_missing_asteroids(s) ==
    SpawnTimes({s}, FIELD_HEIGHT - 1, MAX_ASTEROIDS - s.numAsteroids)

\* ------------------------------------------------------ public operations
\* initialise_game without numProjectiles = 0 and paused = 0.
initialise_game_NoReset(s) ==
    LET a == new_frame([reset_frame(s) EXCEPT !.basePosition = BASE_START,
                                              !.numAsteroids = 0,
                                              !.asteroids = Prefix(@, 0)])
    IN  { draw_frame(redraw_whole_display(sort_asteroids(t))) :
            t \in SpawnTimes({a}, INITIAL_BLOCKED_ROWS, MAX_ASTEROIDS) }

\* The set of states initialise_game can return in.
initialise_game(s) ==
    LET a == new_frame([reset_frame(s) EXCEPT !.basePosition = BASE_START,
                                              !.numProjectiles = 0,
                                              !.projectiles = Prefix(@, 0),
                                              !.numAsteroids = 0,
                                              !.asteroids = Prefix(@, 0),
                                              !.paused = 0])
    IN  { draw_frame(redraw_whole_display(sort_asteroids(t))) :
            t \in SpawnTimes({a}, INITIAL_BLOCKED_ROWS, MAX_ASTEROIDS) }

\* move_base without its call of check_all_base_hits.
move_base_NoCheck(s, direction) ==
    IF \/ (s.basePosition = 0 /\ direction = MOVE_LEFT)
       \/ (s.basePosition = 7 /\ direction = MOVE_RIGHT)
    THEN <<s, 0>>
    ELSE LET a == redraw_base(draw_frame(s))
             b == [a EXCEPT !.basePosition = @ + 2 * direction - 1]
         IN  <<draw_frame(redraw_base(b)), 1>>

\* move_base that stops the base at the right edge only.
move_base_NoLeftStop(s, direction) ==
    IF s.basePosition = 7 /\ direction = MOVE_RIGHT
    THEN <<s, 0>>
    ELSE LET a == redraw_base(draw_frame(s))
             b == [a EXCEPT !.basePosition = @ + 2 * direction - 1]
         IN  <<draw_frame(redraw_base(check_all_base_hits(b))), 1>>

\* move_base that stops the base at the left edge only.
move_base_NoRightStop(s, direction) ==
    IF s.basePosition = 0 /\ direction = MOVE_LEFT
    THEN <<s, 0>>
    ELSE LET a == redraw_base(draw_frame(s))
             b == [a EXCEPT !.basePosition = @ + 2 * direction - 1]
         IN  <<draw_frame(redraw_base(check_all_base_hits(b))), 1>>

\* The pair <<state, return value>>.
move_base(s, direction) ==
    IF \/ (s.basePosition = 0 /\ direction = MOVE_LEFT)
       \/ (s.basePosition = 7 /\ direction = MOVE_RIGHT)
    THEN <<s, 0>>
    ELSE LET a == redraw_base(draw_frame(s))
             b == [a EXCEPT !.basePosition = @ + 2 * direction - 1]
         IN  <<draw_frame(redraw_base(check_all_base_hits(b))), 1>>

\* fire_projectile without the call of check_asteroid_hit.
fire_projectile_NoHit(s) ==
    IF /\ s.numProjectiles < MAX_PROJECTILES
       /\ projectile_at(s, s.basePosition, FIRE_ROW) = -1
    THEN LET newProjectileNumber == s.numProjectiles
             a == new_frame(s)
             b == [a EXCEPT !.numProjectiles = @ + 1,
                            !.projectiles = Store(@, newProjectileNumber,
                                                  GAME_POSITION(s.basePosition, FIRE_ROW))]
         IN  <<draw_frame(redraw_projectile(b, newProjectileNumber)), 1>>
    ELSE <<s, 0>>

\* fire_projectile without the test projectile_at(basePosition, 2) == -1.
fire_projectile_Stacking(s) ==
    IF s.numProjectiles < MAX_PROJECTILES
    THEN LET newProjectileNumber == s.numProjectiles
             a == new_frame(s)
             b == [a EXCEPT !.numProjectiles = @ + 1,
                            !.projectiles = Store(@, newProjectileNumber,
                                                  GAME_POSITION(s.basePosition, FIRE_ROW))]
             h == check_asteroid_hit(b, newProjectileNumber,
                                     asteroid_at(b, b.basePosition, FIRE_ROW))
         IN  <<draw_frame(redraw_projectile(h[1], newProjectileNumber)), 1>>
    ELSE <<s, 0>>

\* fire_projectile without the test numProjectiles < MAX_PROJECTILES.
fire_projectile_Unlimited(s) ==
    IF projectile_at(s, s.basePosition, FIRE_ROW) = -1
    THEN LET newProjectileNumber == s.numProjectiles
             a == new_frame(s)
             b == [a EXCEPT !.numProjectiles = @ + 1,
                            !.projectiles = Store(@, newProjectileNumber,
                                                  GAME_POSITION(s.basePosition, FIRE_ROW))]
             h == check_asteroid_hit(b, newProjectileNumber,
                                     asteroid_at(b, b.basePosition, FIRE_ROW))
         IN  <<draw_frame(redraw_projectile(h[1], newProjectileNumber)), 1>>
    ELSE <<s, 0>>

\* fire_projectile that puts the new projectile at the front of the list,
\* the others one index higher.
fire_projectile_AtFront(s) ==
    IF /\ s.numProjectiles < MAX_PROJECTILES
       /\ projectile_at(s, s.basePosition, FIRE_ROW) = -1
    THEN LET a == new_frame(s)
             b == [a EXCEPT !.numProjectiles = @ + 1,
                            !.projectiles =
                                [j \in 0..s.numProjectiles |->
                                    IF j = 0 THEN GAME_POSITION(s.basePosition, FIRE_ROW)
                                    ELSE s.projectiles[j - 1]]]
             h == check_asteroid_hit(b, 0, asteroid_at(b, b.basePosition, FIRE_ROW))
         IN  <<draw_frame(redraw_projectile(h[1], 0)), 1>>
    ELSE <<s, 0>>

\* The pair <<state, return value>>.
fire_projectile(s) ==
    IF /\ s.numProjectiles < MAX_PROJECTILES
       /\ projectile_at(s, s.basePosition, FIRE_ROW) = -1
    THEN LET newProjectileNumber == s.numProjectiles
             a == new_frame(s)
             b == [a EXCEPT !.numProjectiles = @ + 1,
                            !.projectiles = Store(@, newProjectileNumber,
                                                  GAME_POSITION(s.basePosition, FIRE_ROW))]
             h == check_asteroid_hit(b, newProjectileNumber,
                                     asteroid_at(b, b.basePosition, FIRE_ROW))
             c == IF h[2] # -1 THEN redraw_projectile(h[1], newProjectileNumber) ELSE h[1]
         IN  <<draw_frame(c), 1>>
    ELSE <<s, 0>>

\* One iteration of the loop of advance_projectiles that leaves a projectile
\* of the top row in the list: "continue" without remove_projectile.
ProjectileIteration_NoRemoval(s, projectileNumber) ==
    LET x == GET_X_POSITION(s.projectiles[projectileNumber])
        y == U8(GET_Y_POSITION(s.projectiles[projectileNumber]) + 1)
    IN  IF y = FIELD_HEIGHT
        THEN <<s, projectileNumber>>
        ELSE LET h == check_asteroid_hit(s, projectileNumber, asteroid_at(s, x, y))
             IN  IF h[2] # 0
                 THEN <<h[1], projectileNumber>>
                 ELSE LET a == redraw_projectile(s, projectileNumber)
                          b == [a EXCEPT !.projectiles[projectileNumber] =
                                             GAME_POSITION(x, y)]
                      IN  <<redraw_projectile(b, projectileNumber), projectileNumber + 1>>

\* One iteration of the loop of advance_projectiles: the pair of the state and
\* of projectileNumber after it.
ProjectileIteration(s, projectileNumber) ==
    LET x == GET_X_POSITION(s.projectiles[projectileNumber])
        y == U8(GET_Y_POSITION(s.projectiles[projectileNumber]) + 1)
    IN  IF y = FIELD_HEIGHT
        THEN <<remove_projectile(s, projectileNumber), projectileNumber>>
        ELSE LET h == check_asteroid_hit(s, projectileNumber, asteroid_at(s, x, y))
             IN  IF h[2] # 0
                 THEN <<h[1], projectileNumber>>
                 ELSE LET a == redraw_projectile(s, projectileNumber)
                          b == [a EXCEPT !.projectiles[projectileNumber] =
                                             GAME_POSITION(x, y)]
                      IN  <<redraw_projectile(b, projectileNumber), projectileNumber + 1>>

RECURSIVE ProjectileLoop(_, _)
\* while (projectileNumber < numProjectiles) { ... }
ProjectileLoop(s, projectileNumber) ==
    IF ~(projectileNumber < s.numProjectiles) THEN s
    ELSE LET r == ProjectileIteration(s, projectileNumber)
         IN  ProjectileLoop(r[1], r[2])

RECURSIVE ProjectileLoop_Skipping(_, _)
\* The loop of advance_projectiles with projectileNumber++ after a removal too.
ProjectileLoop_Skipping(s, projectileNumber) ==
    IF ~(projectileNumber < s.numProjectiles) THEN s
    ELSE LET x == GET_X_POSITION(s.projectiles[projectileNumber])
             y == U8(GET_Y_POSITION(s.projectiles[projectileNumber]) + 1)
         IN  IF y = FIELD_HEIGHT
             THEN ProjectileLoop_Skipping(remove_projectile(s, projectileNumber),
                                          projectileNumber + 1)
             ELSE LET h == check_asteroid_hit(s, projectileNumber, asteroid_at(s, x, y))
                  IN  IF h[2] # 0
                      THEN ProjectileLoop_Skipping(h[1], projectileNumber + 1)
                      ELSE LET a == redraw_projectile(s, projectileNumber)
                               b == [a EXCEPT !.projectiles[projectileNumber] =
                                                  GAME_POSITION(x, y)]
                           IN  ProjectileLoop_Skipping(redraw_projectile(b, projectileNumber),
                                                       projectileNumber + 1)

advance_projectiles_Skipping(s) ==
    { draw_frame(t) : t \in add_missing_asteroids(ProjectileLoop_Skipping(new_frame(s), 0)) }

\* advance_projectiles without its last call, draw_frame.
advance_projectiles_NoFlush(s) ==
    add_missing_asteroids(ProjectileLoop(new_frame(s), 0))

\* The set of states advance_projectiles can return in.
advance_projectiles(s) ==
    { draw_frame(t) : t \in add_missing_asteroids(ProjectileLoop(new_frame(s), 0)) }

RECURSIVE AsteroidLoop_Skipping(_, _)
\* The loop of advance_asteroids with i++ after a removal too.
AsteroidLoop_Skipping(s, i) ==
    IF ~(i < s.numAsteroids) THEN s
    ELSE LET x == GET_X_POSITION(s.asteroids[i])
             y == GET_Y_POSITION(s.asteroids[i])
             a == redraw_asteroid(s, i)
             new_y == y - 1
         IN  IF new_y < 0
             THEN AsteroidLoop_Skipping(remove_asteroid(a, i), i + 1)
             ELSE LET h == check_asteroid_hit(a, projectile_at(a, x, new_y), i)
                  IN  IF h[2] # 0
                      THEN AsteroidLoop_Skipping(h[1], i + 1)
                      ELSE LET b == [a EXCEPT !.asteroids[i] = GAME_POSITION(x, new_y)]
                           IN  AsteroidLoop_Skipping(redraw_asteroid(b, i), i + 1)

\* One iteration of the loop of advance_asteroids: the pair of the state and
\* of i after it.
AsteroidIteration(s, i) ==
    LET x == GET_X_POSITION(s.asteroids[i])
        y == GET_Y_POSITION(s.asteroids[i])
        a == redraw_asteroid(s, i)
        new_y == y - 1
    IN  IF new_y < 0
        THEN <<remove_asteroid(a, i), i>>
        ELSE LET h == check_asteroid_hit(a, projectile_at(a, x, new_y), i)
             IN  IF h[2] # 0
                 THEN <<h[1], i>>
                 ELSE LET b == [a EXCEPT !.asteroids[i] = GAME_POSITION(x, new_y)]
                      IN  <<redraw_asteroid(b, i), i + 1>>

RECURSIVE AsteroidLoop(_, _)
\* while (i < numAsteroids) { ... }
AsteroidLoop(s, i) ==
    IF ~(i < s.numAsteroids) THEN s
    ELSE LET r == AsteroidIteration(s, i)
         IN  AsteroidLoop(r[1], r[2])

\* The set of states advance_asteroids can return in.
advance_asteroids(s) ==
    { redraw_base(draw_frame(t)) :
        t \in add_missing_asteroids(check_all_base_hits(AsteroidLoop(new_frame(s), 0))) }

is_game_over(s) == IF get_lives(s) = 0 THEN 1 ELSE 0

set_paused(s, pause) == [s EXCEPT !.paused = pause]

\* ------------------------------------------------------- the SPI buffer
\* buffer[] is modelled by the slots that hold a byte other than 0: the array
\* is zero-initialised and flush_spi_buffer zeroes what it sends.
BufferAt(i) == IF i \in DOMAIN buffer THEN buffer[i] ELSE 0

SpiInit ==
    /\ buffer = <<>>
    /\ bufferIndex = 0
    /\ buffering = 0
    /\ sent = <<>>
    /\ wire = <<>>
    /\ stray = FALSE
    /\ phase = "unbuffered"
    /\ direct = 0

\* The engine's globals, which the SPI functions do not touch.
engineVars == <<basePosition, numProjectiles, projectiles, numAsteroids, asteroids,
                paused, score, lives>>

\* bufferIndex = 0; buffering = 1;
\* The renderer starts a burst when none is open.
StartSpiBuffer ==
    /\ phase # "buffering"
    /\ direct' = 0
    /\ bufferIndex' = 0
    /\ buffering' = 1
    /\ sent' = <<>>
    /\ wire' = <<>>
    /\ phase' = "buffering"
    /\ UNCHANGED <<buffer, stray, engineVars>>

\* The byte the model hands over next: the bytes of a burst are told apart by
\* their values, 1, 2, ..., 255, 1, ...
NextByte == (Len(sent) % 255) + 1

\* SPDR0 = byte, and the wait for the transfer to complete.
real_spi_send_byte(byte) == wire' = Append(wire, byte)

\* if (!buffering) return real_spi_send_byte(byte);
\* else { buffer[bufferIndex] = byte; bufferIndex++; return 0; }
\* With bufferIndex = 255 the store is outside buffer[]: it lands on memory the
\* functions of spi.c do not read, or on one of the two globals declared after
\* buffer[], bufferIndex and buffering.
SpiSendByte(byte) ==
    /\ IF phase = "buffering" THEN Len(sent) < MaxBurst ELSE direct < MaxUnbuffered
    /\ direct' = IF phase = "buffering" THEN direct ELSE direct + 1
    /\ sent' = Append(sent, byte)
    /\ IF buffering = 0
       THEN /\ real_spi_send_byte(byte)
            /\ UNCHANGED <<buffer, bufferIndex, buffering, stray>>
       ELSE /\ IF bufferIndex < SPI_BUFFER_SIZE
               THEN /\ buffer' = [j \in (DOMAIN buffer) \cup {bufferIndex} |->
                                    IF j = bufferIndex THEN byte ELSE buffer[j]]
                    /\ bufferIndex' = U8(bufferIndex + 1)
                    /\ UNCHANGED <<buffering, stray>>
               ELSE /\ stray' = TRUE
                    /\ UNCHANGED buffer
                    /\ \/ bufferIndex' = U8(bufferIndex + 1) /\ UNCHANGED buffering
                       \/ bufferIndex' = U8(byte + 1) /\ UNCHANGED buffering
                       \/ bufferIndex' = U8(bufferIndex + 1) /\ buffering' = byte
            /\ UNCHANGED wire
    /\ UNCHANGED <<phase, engineVars>>

\* for (i = 0; i < bufferIndex; i++) { real_spi_send_byte(buffer[i]); buffer[i] = 0; }
\* buffering = 0; bufferIndex = 0;
\* The renderer flushes the burst it started.
FlushSpiBuffer ==
    /\ phase = "buffering"
    /\ direct' = 0
    /\ wire' = wire \o [k \in 1..bufferIndex |-> BufferAt(k - 1)]
    /\ buffer' = [j \in { i \in DOMAIN buffer : ~(i < bufferIndex) } |-> buffer[j]]
    /\ buffering' = 0
    /\ bufferIndex' = 0
    /\ phase' = "flushed"
    /\ UNCHANGED <<sent, stray, engineVars>>

\* ------------------------------------------------------- the state machine
\* The globals of game.c before the first call (zero), the store as set up for
\* a game.
Zeroed == [basePosition |-> 0, numProjectiles |-> 0, projectiles |-> <<>>,
           numAsteroids |-> 0, asteroids |-> <<>>, paused |-> 0, score |-> 0,
           lives |-> InitLives, render |-> <<>>]

\* The driver calls the engine while the game is on (and the score within the
\* model's bound).
Playing == lives > 0 /\ score < MaxScore

Init ==
    /\ \E t \in initialise_game(Zeroed) : Is(t)
    /\ SpiInit

\* The driver starts a new game when the one before it is over.
InitialiseGame ==
    /\ is_game_over(Here) = 1
    /\ \E t \in initialise_game(Here) : Became(t)
    /\ UNCHANGED spiVars

\* While the game is paused the driver calls set_paused and initialise_game only.
MoveBase(direction) ==
    /\ Playing /\ paused = 0
    /\ Became(move_base(Here, direction)[1])
    /\ UNCHANGED spiVars

FireProjectile ==
    /\ Playing /\ paused = 0
    /\ Became(fire_projectile(Here)[1])
    /\ UNCHANGED spiVars

AdvanceProjectiles ==
    /\ Playing /\ paused = 0
    /\ \E t \in advance_projectiles(Here) : Became(t)
    /\ UNCHANGED spiVars

AdvanceAsteroids ==
    /\ Playing /\ paused = 0
    /\ \E t \in advance_asteroids(Here) : Became(t)
    /\ UNCHANGED spiVars

SetPaused(pause) ==
    /\ Playing
    /\ Became(set_paused(Here, pause))
    /\ UNCHANGED spiVars

Next ==
    \/ InitialiseGame
    \/ \E direction \in {MOVE_LEFT, MOVE_RIGHT} : MoveBase(direction)
    \/ FireProjectile
    \/ AdvanceProjectiles
    \/ AdvanceAsteroids

\* The game without pauses.
Spec == Init /\ [][Next]_vars

NextPaused ==
    \/ Next
    \/ \E pause \in {0, 1} : SetPaused(pause)

\* The game with pauses.
SpecPaused == Init /\ [][NextPaused]_vars

\* The SPI byte buffer on its own: the engine is not running.
InitSpi == Is(Zeroed) /\ SpiInit

NextSpi ==
    \/ StartSpiBuffer
    \/ \E byte \in {NextByte} : SpiSendByte(byte)
    \/ FlushSpiBuffer

SpecSpi == InitSpi /\ [][NextSpi]_vars

\* ------------------------------------------------------------ properties
\* C1: no two live asteroids share a position and no two live projectiles share
\* a position, after initialise_game and after every operation.
C1_NoSharedPosition ==
    /\ \A i, j \in 0..(numAsteroids - 1) : i # j => asteroids[i] # asteroids[j]
    /\ \A i, j \in 0..(numProjectiles - 1) : i # j => projectiles[i] # projectiles[j]

\* Both lists hold two entries that differ in one coordinate only: the same
\* column for two projectiles, the same row for two asteroids.
C1_Witness ==
    /\ \E i, j \in 0..(numProjectiles - 1) :
          /\ i # j
          /\ GET_X_POSITION(projectiles[i]) = GET_X_POSITION(projectiles[j])
    /\ \E i, j \in 0..(numAsteroids - 1) :
          /\ i # j
          /\ GET_Y_POSITION(asteroids[i]) = GET_Y_POSITION(asteroids[j])
          /\ GET_Y_POSITION(asteroids[i]) < INITIAL_BLOCKED_ROWS

\* C2: 0 <= numProjectiles <= MAX_PROJECTILES and 0 <= numAsteroids <=
\* MAX_ASTEROIDS in every reachable state.
C2_CountsInRange ==
    /\ 0 <= numProjectiles /\ numProjectiles <= MAX_PROJECTILES
    /\ 0 <= numAsteroids /\ numAsteroids <= MAX_ASTEROIDS

\* The projectile list is full and fire_projectile is called (and refuses).
C2_Witness ==
    /\ numProjectiles = MAX_PROJECTILES
    /\ numAsteroids = MAX_ASTEROIDS
    /\ projectile_at(Here, basePosition, FIRE_ROW) = -1
    /\ fire_projectile(Here)[2] = 0

\* C3 as claimed: an operation that starts with the asteroid list full and
\* completes while lives remain returns with numAsteroids = MAX_ASTEROIDS.
C3_AlwaysAtCapacity ==
    [][(numAsteroids = MAX_ASTEROIDS /\ lives' > 0) => numAsteroids' = MAX_ASTEROIDS]_vars

\* Some cell of the top row, where add_missing_asteroids spawns, holds an asteroid.
TopRowHeld(s) ==
    \E i \in 0..(s.numAsteroids - 1) : GET_Y_POSITION(s.asteroids[i]) = FIELD_HEIGHT - 1

\* C3, amended: advance_projectiles and advance_asteroids return with
\* numAsteroids = MAX_ASTEROIDS, or with fewer and an asteroid in the top row
\* (a spawn gave up on occupied cells); move_base and fire_projectile never
\* raise numAsteroids.
C3_AdvanceReplenishes ==
    /\ \A t \in advance_projectiles(Here) \cup advance_asteroids(Here) :
          t.numAsteroids = MAX_ASTEROIDS \/ (t.numAsteroids < MAX_ASTEROIDS /\ TopRowHeld(t))
    /\ \A direction \in {MOVE_LEFT, MOVE_RIGHT} :
          move_base(Here, direction)[1].numAsteroids <= numAsteroids
    /\ fire_projectile(Here)[1].numAsteroids <= numAsteroids

\* advance_asteroids is called with the list full; its pass and its base-hit
\* check destroy asteroids, and it returns with the list full again.
C3_Witness ==
    /\ Playing
    /\ numAsteroids = MAX_ASTEROIDS
    /\ check_all_base_hits(AsteroidLoop(new_frame(Here), 0)).numAsteroids < MAX_ASTEROIDS - 1
    /\ \E t \in advance_asteroids(Here) : t.numAsteroids = MAX_ASTEROIDS

\* C4: the live asteroids are in non-decreasing y order by index, after
\* initialise_game and after every operation.
C4_SortedByY ==
    \A i, j \in 0..(numAsteroids - 1) :
        i < j => GET_Y_POSITION(asteroids[i]) <= GET_Y_POSITION(asteroids[j])

\* The list is full, its first asteroid has fallen below the rows of the
\* initial spawn and its last one is in the top row, so it was appended by a
\* replenishment after the first one was placed.
C4_Witness ==
    /\ numAsteroids = MAX_ASTEROIDS
    /\ GET_Y_POSITION(asteroids[0]) < INITIAL_BLOCKED_ROWS
    /\ GET_Y_POSITION(asteroids[numAsteroids - 1]) = FIELD_HEIGHT - 1

\* The packed byte of the cell (x, y) of the field.
Cell(x, y) == 16 * x + y
\* The k-th smallest index of K, from 0.
Kth(K, k) == CHOOSE i \in K : Cardinality({ j \in K : j < i }) = k
\* The entries of arr at the indices K, in their order, at 0..|K|-1.
Compact(arr, K) == [k \in 0..(Cardinality(K) - 1) |-> arr[Kth(K, k)]]
\* arr with every entry replaced by the cell dy rows above it.
Shifted(arr, dy) ==
    [k \in DOMAIN arr |-> Cell(GET_X_POSITION(arr[k]), GET_Y_POSITION(arr[k]) + dy)]

\* Of the projectiles of s: those in the top row, and those below an asteroid.
AtTop(s) ==
    { i \in 0..(s.numProjectiles - 1) :
        GET_Y_POSITION(s.projectiles[i]) = FIELD_HEIGHT - 1 }
BelowAsteroid(s) ==
    { i \in 0..(s.numProjectiles - 1) :
        /\ GET_Y_POSITION(s.projectiles[i]) < FIELD_HEIGHT - 1
        /\ \E a \in 0..(s.numAsteroids - 1) :
              s.asteroids[a] = Cell(GET_X_POSITION(s.projectiles[i]),
                                    GET_Y_POSITION(s.projectiles[i]) + 1) }
\* Of the asteroids of s: those right above a projectile.
AboveProjectile(s) ==
    { a \in 0..(s.numAsteroids - 1) :
        /\ GET_Y_POSITION(s.asteroids[a]) > 0
        /\ \E i \in 0..(s.numProjectiles - 1) :
              s.projectiles[i] = Cell(GET_X_POSITION(s.asteroids[a]),
                                      GET_Y_POSITION(s.asteroids[a]) - 1) }

\* C5: advance_projectiles removes the projectiles of the top row, removes each
\* projectile right below an asteroid together with that asteroid, and leaves
\* the others, in their order and without a gap, one row up.
C5_AdvanceProjectiles ==
    LET all == 0..(numProjectiles - 1)
        moved == all \ (AtTop(Here) \cup BelowAsteroid(Here))
        left == (0..(numAsteroids - 1)) \ AboveProjectile(Here)
    IN  \A t \in advance_projectiles(Here) :
          /\ t.numProjectiles = numProjectiles - Cardinality(AtTop(Here))
                                               - Cardinality(BelowAsteroid(Here))
          /\ t.projectiles = Shifted(Compact(projectiles, moved), 1)
          /\ t.numAsteroids >= Cardinality(left)
          /\ Prefix(t.asteroids, Cardinality(left)) = Compact(asteroids, left)
          /\ \A k \in Cardinality(left)..(t.numAsteroids - 1) :
                GET_Y_POSITION(t.asteroids[k]) = FIELD_HEIGHT - 1

\* advance_projectiles is called with a projectile that it removes (it is in
\* the top row or below an asteroid) in front of one that it moves up.
C5_Witness ==
    /\ Playing
    /\ \E i, j \in 0..(numProjectiles - 1) :
          /\ i < j
          /\ i \in AtTop(Here) \cup BelowAsteroid(Here)
          /\ j \notin AtTop(Here) \cup BelowAsteroid(Here)
    /\ BelowAsteroid(Here) # {}

\* Of the asteroids of s: those in the bottom row.
AtBottom(s) ==
    { a \in 0..(s.numAsteroids - 1) : GET_Y_POSITION(s.asteroids[a]) = 0 }

\* C6: the pass of advance_asteroids removes the asteroids of the bottom row,
\* removes each asteroid right above a projectile together with that projectile,
\* adding one to the score, and leaves the others, in their order, one row down
\* in their column; the rest of advance_asteroids changes neither the
\* projectiles nor the score.
C6_AdvanceAsteroids ==
    LET m == AsteroidLoop(new_frame(Here), 0)
        moved == (0..(numAsteroids - 1)) \ (AtBottom(Here) \cup AboveProjectile(Here))
        flying == (0..(numProjectiles - 1)) \ BelowAsteroid(Here)
    IN  /\ m.numAsteroids = Cardinality(moved)
        /\ m.asteroids = Shifted(Compact(asteroids, moved), -1)
        /\ m.numProjectiles = Cardinality(flying)
        /\ m.projectiles = Compact(projectiles, flying)
        /\ m.score = score + Cardinality(AboveProjectile(Here))
        /\ Cardinality(AboveProjectile(Here)) = Cardinality(BelowAsteroid(Here))
        /\ \A t \in advance_asteroids(Here) :
              /\ t.numProjectiles = m.numProjectiles
              /\ t.projectiles = m.projectiles
              /\ t.score = m.score

\* advance_asteroids is called with an asteroid that its pass removes (it is in
\* the bottom row or right above a projectile) in front of one that it moves
\* down, and some asteroid is right above a projectile.
C6_Witness ==
    /\ Playing
    /\ \E i, j \in 0..(numAsteroids - 1) :
          /\ i < j
          /\ i \in AtBottom(Here) \cup AboveProjectile(Here)
          /\ j \notin AtBottom(Here) \cup AboveProjectile(Here)
    /\ AboveProjectile(Here) # {}

\* A projectile is below capacity and no projectile is in the cell above the base.
CanFire ==
    /\ numProjectiles < MAX_PROJECTILES
    /\ \A i \in 0..(numProjectiles - 1) : projectiles[i] # Cell(basePosition, FIRE_ROW)
\* The asteroids in the cell a projectile is fired into.
InFireCell ==
    { a \in 0..(numAsteroids - 1) : asteroids[a] = Cell(basePosition, FIRE_ROW) }

\* C7: a fire_projectile that succeeds returns 1; with no asteroid in the cell
\* (basePosition, 2) it appends a projectile there and changes nothing else;
\* with an asteroid there it removes that asteroid, adds one to the score and
\* leaves the projectile list as it was.
C7_FireSucceeds ==
    LET r == fire_projectile(Here)
    IN  CanFire =>
          /\ r[2] = 1
          /\ r[1].basePosition = basePosition /\ r[1].lives = lives
          /\ IF InFireCell = {}
             THEN /\ r[1].numProjectiles = numProjectiles + 1
                  /\ r[1].projectiles =
                        Store(projectiles, numProjectiles, Cell(basePosition, FIRE_ROW))
                  /\ r[1].numAsteroids = numAsteroids
                  /\ r[1].asteroids = asteroids
                  /\ r[1].score = score
             ELSE /\ r[1].numProjectiles = numProjectiles
                  /\ r[1].projectiles = projectiles
                  /\ r[1].numAsteroids = numAsteroids - 1
                  /\ r[1].asteroids =
                        Compact(asteroids, (0..(numAsteroids - 1)) \ InFireCell)
                  /\ r[1].score = score + 1

\* fire_projectile is called, with a projectile in flight, when an asteroid is
\* in the cell above the base, and returns 1.
C7_Witness ==
    /\ Playing
    /\ CanFire
    /\ numProjectiles > 0
    /\ InFireCell # {}
    /\ fire_projectile(Here)[2] = 1

\* C8: fire_projectile returns 0, with nothing changed and no call made,
\* exactly when numProjectiles = MAX_PROJECTILES or a projectile is in the cell
\* (basePosition, 2); in every other state it returns 1 and changes the state.
C8_FireRefused ==
    LET r == fire_projectile(Here)
    IN  /\ ~CanFire => r = <<Here, 0>>
        /\ CanFire => (r[2] = 1 /\ r[1] # Here
                       /\ [r[1] EXCEPT !.render = <<>>] # Here)

\* fire_projectile is called with room in the list and a projectile in the cell
\* above the base, and returns 0.
C8_Witness ==
    /\ Playing
    /\ numProjectiles > 0
    /\ numProjectiles < MAX_PROJECTILES
    /\ ~CanFire
    /\ fire_projectile(Here)[2] = 0

\* The cells of the field under a base centred on column b.
Footprint(b) ==
    { Cell(c[1], c[2]) : c \in { d \in { <<b - 1, 0>>, <<b, 0>>, <<b + 1, 0>>, <<b, 1>> } :
                                   d[1] >= 0 /\ d[1] < FIELD_WIDTH } }
\* The asteroids of s under the base.
OnFootprint(s) ==
    { a \in 0..(s.numAsteroids - 1) : s.asteroids[a] \in Footprint(s.basePosition) }
\* s with the base one column further in the direction.
BaseMoved(s, direction) ==
    [s EXCEPT !.basePosition = IF direction = MOVE_LEFT THEN @ - 1 ELSE @ + 1]
\* move_base does not refuse the direction.
CanMove(direction) ==
    ~ \/ (direction = MOVE_LEFT /\ basePosition = 0)
      \/ (direction = MOVE_RIGHT /\ basePosition = FIELD_WIDTH - 1)

\* C9: a base-hit check destroys every asteroid under the base and takes one
\* life for each: in move_base, with the base in its new column, and in
\* advance_asteroids, after the pass. Nothing else changes lives.
C9_BaseHits ==
    /\ \A direction \in {MOVE_LEFT, MOVE_RIGHT} :
          LET m == BaseMoved(Here, direction)
              r == move_base(Here, direction)[1]
          IN  IF CanMove(direction)
              THEN /\ r.lives = lives - Cardinality(OnFootprint(m))
                   /\ r.numAsteroids = numAsteroids - Cardinality(OnFootprint(m))
                   /\ r.asteroids =
                         Compact(asteroids, (0..(numAsteroids - 1)) \ OnFootprint(m))
              ELSE r.lives = lives
    /\ LET m == AsteroidLoop(new_frame(Here), 0)
           kept == (0..(m.numAsteroids - 1)) \ OnFootprint(m)
       IN  \A t \in advance_asteroids(Here) :
             /\ t.lives = lives - Cardinality(OnFootprint(m))
             /\ t.numAsteroids >= Cardinality(kept)
             /\ Prefix(t.asteroids, Cardinality(kept)) = Compact(m.asteroids, kept)
             /\ OnFootprint(t) = {}
    /\ fire_projectile(Here)[1].lives = lives
    /\ \A t \in advance_projectiles(Here) : t.lives = lives
    /\ is_game_over(Here) = 1 => \A t \in initialise_game(Here) : t.lives = lives

\* move_base is called and brings two asteroids under the base.
C9_Witness ==
    /\ Playing
    /\ \E direction \in {MOVE_LEFT, MOVE_RIGHT} :
          /\ CanMove(direction)
          /\ Cardinality(OnFootprint(BaseMoved(Here, direction))) >= 2
          /\ move_base(Here, direction)[1].lives = lives - 2

\* C10: move_base(MOVE_LEFT) with the base in column 0, and
\* move_base(MOVE_RIGHT) with the base in column FIELD_WIDTH-1, returns 0 with
\* nothing changed and no call made to the renderer.
C10_MoveRefused ==
    /\ basePosition = 0 => move_base(Here, MOVE_LEFT) = <<Here, 0>>
    /\ basePosition = FIELD_WIDTH - 1 => move_base(Here, MOVE_RIGHT) = <<Here, 0>>

\* move_base(MOVE_RIGHT) is called with the base in the last column, with
\* projectiles in flight, and returns 0.
C10_Witness ==
    /\ Playing
    /\ basePosition = FIELD_WIDTH - 1
    /\ numProjectiles > 0
    /\ move_base(Here, MOVE_RIGHT)[2] = 0

\* C11: a move_base that is not refused returns 1 with basePosition one lower
\* for MOVE_LEFT and one higher for MOVE_RIGHT; basePosition is within
\* 0..FIELD_WIDTH-1 in every reachable state; fire_projectile,
\* advance_projectiles and advance_asteroids leave basePosition as it is.
C11_BaseInField ==
    /\ basePosition >= 0 /\ basePosition <= FIELD_WIDTH - 1
    /\ CanMove(MOVE_LEFT) => move_base(Here, MOVE_LEFT)[2] = 1
                               /\ move_base(Here, MOVE_LEFT)[1].basePosition = basePosition - 1
    /\ CanMove(MOVE_RIGHT) => move_base(Here, MOVE_RIGHT)[2] = 1
                                /\ move_base(Here, MOVE_RIGHT)[1].basePosition = basePosition + 1
    /\ fire_projectile(Here)[1].basePosition = basePosition
    /\ \A t \in advance_projectiles(Here) \cup advance_asteroids(Here) :
          t.basePosition = basePosition

\* The base has been moved to column 0, and move_base(MOVE_RIGHT) is called
\* there and returns 1.
C11_Witness ==
    /\ Playing
    /\ basePosition = 0
    /\ move_base(Here, MOVE_RIGHT)[2] = 1

\* What initialise_game sets apart from the number of asteroids: the base in
\* column 3, no projectile, the pause flag cleared, every asteroid in a row
\* >= 3 and a column of the field.
Reset(t) ==
    /\ t.basePosition = BASE_START
    /\ t.numProjectiles = 0
    /\ t.paused = 0
    /\ \A i \in 0..(t.numAsteroids - 1) :
          /\ GET_Y_POSITION(t.asteroids[i]) >= INITIAL_BLOCKED_ROWS
          /\ GET_Y_POSITION(t.asteroids[i]) < FIELD_HEIGHT
          /\ GET_X_POSITION(t.asteroids[i]) >= 0
          /\ GET_X_POSITION(t.asteroids[i]) < FIELD_WIDTH

CallsOf(log, name) == { k \in 1..Len(log) : log[k] = name }

\* Every set_pixel of the log follows a new_frame of the log with no draw_frame
\* between the two, and a draw_frame of the log follows it.
Bracketed(log) ==
    \A k \in CallsOf(log, "set_pixel") :
        /\ \E b \in CallsOf(log, "new_frame") :
              b < k /\ \A f \in CallsOf(log, "draw_frame") : f < b \/ f > k
        /\ \E f \in CallsOf(log, "draw_frame") : f > k

\* C13 as claimed: in initialise_game, a move_base or fire_projectile that
\* succeeds, advance_projectiles and advance_asteroids, every cell is drawn
\* after a new_frame and before a draw_frame of the operation.
C13_AllBracketed ==
    /\ \A direction \in {MOVE_LEFT, MOVE_RIGHT} :
          CanMove(direction) => Bracketed(move_base(Here, direction)[1].render)
    /\ CanFire => Bracketed(fire_projectile(Here)[1].render)
    /\ \A t \in advance_projectiles(Here) \cup advance_asteroids(Here) :
          Bracketed(t.render)
    /\ is_game_over(Here) = 1 => \A t \in initialise_game(Here) : Bracketed(t.render)

\* C13, amended: initialise_game, a fire_projectile that succeeds and
\* advance_projectiles draw every cell between their new_frame and their
\* draw_frame. A move_base that succeeds calls no new_frame: it calls
\* draw_frame, draws, and calls draw_frame again. advance_asteroids draws the
\* cells of its pass between its new_frame and its draw_frame, and the base
\* after that draw_frame. An operation that is refused makes no call.
C13_Brackets ==
    /\ \A direction \in {MOVE_LEFT, MOVE_RIGHT} :
          LET log == move_base(Here, direction)[1].render
          IN  IF CanMove(direction)
              THEN /\ CallsOf(log, "new_frame") = {}
                   /\ CallsOf(log, "draw_frame") = {1, Len(log)}
                   /\ CallsOf(log, "set_pixel") # {}
              ELSE log = <<>>
    /\ LET log == fire_projectile(Here)[1].render
       IN  IF CanFire
           THEN Bracketed(log) /\ log[1] = "new_frame" /\ log[Len(log)] = "draw_frame"
           ELSE log = <<>>
    /\ \A t \in advance_projectiles(Here) :
          /\ Bracketed(t.render)
          /\ t.render[1] = "new_frame" /\ t.render[Len(t.render)] = "draw_frame"
    /\ \A t \in advance_asteroids(Here) :
          \E f \in 1..Len(t.render) :
              /\ CallsOf(t.render, "new_frame") = {1}
              /\ CallsOf(t.render, "draw_frame") = {f}
              /\ Bracketed(SubSeq(t.render, 1, f))
              /\ \E k \in CallsOf(t.render, "set_pixel") : k > f
    /\ is_game_over(Here) = 1 =>
          \A t \in initialise_game(Here) :
              /\ Bracketed(t.render)
              /\ CallsOf(t.render, "set_pixel") # {}

\* The operations are called in a game with both lists full and an asteroid
\* right above a projectile, so that each of them draws cells.
C13_Witness ==
    /\ Playing
    /\ numProjectiles = MAX_PROJECTILES
    /\ numAsteroids = MAX_ASTEROIDS
    /\ AboveProjectile(Here) # {}
    /\ CanMove(MOVE_LEFT) /\ CanMove(MOVE_RIGHT)
    /\ \A t \in advance_projectiles(Here) : CallsOf(t.render, "set_pixel") # {}

\* C14: check_asteroid_hit with the index of a projectile and the index of an
\* asteroid removes that projectile and that asteroid, adds one to the score
\* and returns 1; with -1 for either it changes nothing and returns 0. Every
\* operation adds to the score the number of projectile/asteroid pairs it
\* destroys together, and the score changes in no other way.
C14_ScoreCountsHits ==
    /\ \A p \in (-1)..(numProjectiles - 1), a \in (-1)..(numAsteroids - 1) :
          LET r == check_asteroid_hit(Here, p, a)
          IN  IF p = -1 \/ a = -1
              THEN r = <<Here, 0>>
              ELSE /\ r[2] = 1
                   /\ r[1].score = score + 1
                   /\ r[1].numProjectiles = numProjectiles - 1
                   /\ r[1].projectiles =
                         Compact(projectiles, (0..(numProjectiles - 1)) \ {p})
                   /\ r[1].numAsteroids = numAsteroids - 1
                   /\ r[1].asteroids = Compact(asteroids, (0..(numAsteroids - 1)) \ {a})
                   /\ r[1].lives = lives /\ r[1].basePosition = basePosition
    /\ fire_projectile(Here)[1].score =
          score + (IF CanFire /\ InFireCell # {} THEN 1 ELSE 0)
    /\ \A t \in advance_projectiles(Here) :
          t.score = score + Cardinality(BelowAsteroid(Here))
    /\ \A t \in advance_asteroids(Here) :
          t.score = score + Cardinality(AboveProjectile(Here))
    /\ \A direction \in {MOVE_LEFT, MOVE_RIGHT} :
          move_base(Here, direction)[1].score = score
    /\ is_game_over(Here) = 1 => \A t \in initialise_game(Here) : t.score = score

\* After one pair was destroyed, advance_asteroids is called with an asteroid
\* right above a projectile and another asteroid in the bottom row.
C14_Witness ==
    /\ Playing
    /\ score = 1
    /\ AboveProjectile(Here) # {}
    /\ AtBottom(Here) # {}
    /\ \A t \in advance_asteroids(Here) : t.score = 2

\* C15: after initialise_game and after every operation, no cell holds both a
\* live asteroid and a live projectile.
C15_NoSharedCell ==
    \A a \in 0..(numAsteroids - 1), i \in 0..(numProjectiles - 1) :
        asteroids[a] # projectiles[i]

\* C16: with the store starting at InitLives and change_lives(d) adding d,
\* lives is InitLives less the base hits so far; once the base hits have
\* reached InitLives (lives <= 0), is_game_over returns 1.
C16_GameOverAtZero ==
    lives <= 0 => is_game_over(Here) = 1

\* arr, of n entries, without its entry k: the entries before k where they
\* were, the entries after k one index lower.
Without(arr, n, k) == Compact(arr, (0..(n - 1)) \ {k})

\* The state with the projectiles appended to the asteroid list: a list as
\* long as both lists together, for the removal to shift more than one entry.
Joined ==
    [Here EXCEPT !.asteroids = [j \in 0..(numAsteroids + numProjectiles - 1) |->
                                   IF j < numAsteroids THEN asteroids[j]
                                   ELSE projectiles[j - numAsteroids]],
                 !.numAsteroids = numAsteroids + numProjectiles]

\* C17: remove_asteroid(k) and remove_projectile(k) change nothing when k < 0
\* or k >= the count; otherwise they leave the list without its entry k, the
\* later entries one index lower in their order, and the count one lower.
C17_RemoveShiftsDown ==
    /\ \A s \in {Here, Joined} :
          \A k \in (-2)..(s.numAsteroids + 1) :
              LET r == remove_asteroid(s, k)
              IN  IF k < 0 \/ k >= s.numAsteroids
                  THEN r = s
                  ELSE /\ r.numAsteroids = s.numAsteroids - 1
                       /\ r.asteroids = Without(s.asteroids, s.numAsteroids, k)
                       /\ \A j \in 0..(s.numAsteroids - 2) :
                             r.asteroids[j] = s.asteroids[IF j < k THEN j ELSE j + 1]
                       /\ [r EXCEPT !.render = <<>>] =
                             [s EXCEPT !.asteroids = r.asteroids,
                                       !.numAsteroids = r.numAsteroids]
    /\ \A k \in (-2)..(numProjectiles + 1) :
          LET r == remove_projectile(Here, k)
          IN  IF k < 0 \/ k >= numProjectiles
              THEN r = Here
              ELSE /\ r.numProjectiles = numProjectiles - 1
                   /\ r.projectiles = Without(projectiles, numProjectiles, k)
                   /\ \A j \in 0..(numProjectiles - 2) :
                         r.projectiles[j] = projectiles[IF j < k THEN j ELSE j + 1]
                   /\ [r EXCEPT !.render = <<>>] =
                         [Here EXCEPT !.projectiles = r.projectiles,
                                      !.numProjectiles = r.numProjectiles]

\* Both lists are full, and an asteroid is removed from a list of three or
\* more with two different asteroids behind it.
C17_Witness ==
    /\ numAsteroids = MAX_ASTEROIDS
    /\ numProjectiles = MAX_PROJECTILES
    /\ Joined.numAsteroids >= 3
    /\ Joined.asteroids[1] # Joined.asteroids[Joined.numAsteroids - 1]
    /\ remove_asteroid(Joined, 0).asteroids[0] = Joined.asteroids[1]
    /\ remove_projectile(Here, 0).projectiles[0] = projectiles[1]

\* C18: one call of add_asteroid_in_rows samples at most 128 cells; with the
\* list full it samples nothing and changes nothing; otherwise it either
\* changes nothing or appends one asteroid, at index numAsteroids, on a cell
\* that held no asteroid.
C18_AtMost128Samples ==
    \A blockedRows \in {INITIAL_BLOCKED_ROWS, FIELD_HEIGHT - 1} :
        /\ \A n \in SampleCounts(Here, blockedRows) : n <= SPAWN_ATTEMPT_LIMIT
        /\ numAsteroids = MAX_ASTEROIDS =>
              /\ SampleCounts(Here, blockedRows) = {0}
              /\ add_asteroid_in_rows(Here, blockedRows) = {Here}
        /\ \A t \in add_asteroid_in_rows(Here, blockedRows) :
              \/ t = Here
              \/ /\ t.numAsteroids = numAsteroids + 1
                 /\ Prefix(t.asteroids, numAsteroids) = asteroids
                 /\ \A a \in 0..(numAsteroids - 1) : asteroids[a] # t.asteroids[numAsteroids]

RECURSIVE ProjectilesAfter(_, _, _)
\* The state and projectileNumber after k iterations of the loop of
\* advance_projectiles, or at its exit if that comes before.
ProjectilesAfter(s, projectileNumber, k) ==
    IF k = 0 \/ ~(projectileNumber < s.numProjectiles) THEN <<s, projectileNumber>>
    ELSE LET r == ProjectileIteration(s, projectileNumber)
         IN  ProjectilesAfter(r[1], r[2], k - 1)

RECURSIVE AsteroidsAfter(_, _, _)
\* The same for the loop of advance_asteroids.
AsteroidsAfter(s, i, k) ==
    IF k = 0 \/ ~(i < s.numAsteroids) THEN <<s, i>>
    ELSE LET r == AsteroidIteration(s, i)
         IN  AsteroidsAfter(r[1], r[2], k - 1)

\* From the index i and the count n, an iteration leads to the index j and the
\* count m by advancing the index or by removing an entry.
OneLess(i, n, j, m) == (j = i + 1 /\ m = n) \/ (j = i /\ m = n - 1)

\* C19: every operation terminates. Each iteration of the loops of
\* advance_projectiles and advance_asteroids either increments the index or
\* decrements the count, so that the loop exits after as many iterations as
\* the list had entries; the spawn loop stops at the attempt limit, before its
\* 8-bit counter wraps, and add_missing_asteroids calls it at most
\* MAX_ASTEROIDS times.
C19_LoopsTerminate ==
    /\ \A k \in 0..(numProjectiles - 1) :
          LET b == ProjectilesAfter(new_frame(Here), 0, k)
              r == ProjectileIteration(b[1], b[2])
          IN  /\ b[2] < b[1].numProjectiles
              /\ OneLess(b[2], b[1].numProjectiles, r[2], r[1].numProjectiles)
    /\ LET e == ProjectilesAfter(new_frame(Here), 0, numProjectiles)
       IN  ~(e[2] < e[1].numProjectiles)
    /\ \A k \in 0..(numAsteroids - 1) :
          LET b == AsteroidsAfter(new_frame(Here), 0, k)
              r == AsteroidIteration(b[1], b[2])
          IN  /\ b[2] < b[1].numAsteroids
              /\ OneLess(b[2], b[1].numAsteroids, r[2], r[1].numAsteroids)
    /\ LET e == AsteroidsAfter(new_frame(Here), 0, numAsteroids)
       IN  ~(e[2] < e[1].numAsteroids)
    /\ \A a \in SpawnAttempts : a <= SPAWN_ATTEMPT_LIMIT /\ a < 255
    /\ \A blockedRows \in {INITIAL_BLOCKED_ROWS, FIELD_HEIGHT - 1} :
          \A n \in SampleCounts(Here, blockedRows) : n <= SPAWN_ATTEMPT_LIMIT + 1
    /\ MAX_ASTEROIDS - numAsteroids >= 0 /\ MAX_ASTEROIDS - numAsteroids <= MAX_ASTEROIDS

\* Both loops run with an entry they remove in front of one they keep: a
\* projectile in the top row or below an asteroid, an asteroid in the bottom
\* row or above a projectile; and a spawn can give up.
C19_Witness ==
    /\ Playing
    /\ numProjectiles = MAX_PROJECTILES
    /\ 0 \in AtTop(Here) \cup BelowAsteroid(Here)
    /\ 0 \in AtBottom(Here) \cup AboveProjectile(Here)
    /\ numAsteroids = MAX_ASTEROIDS
    /\ \E t \in advance_asteroids(Here) : t.numAsteroids < MAX_ASTEROIDS

\* C20: after initialise_game and after every operation, no live asteroid is
\* on a cell of the base's footprint (basePosition-1,0), (basePosition,0),
\* (basePosition+1,0), (basePosition,1).
C20_FootprintClear ==
    OnFootprint(Here) = {}

\* move_base is called towards a column where an asteroid lies under the
\* base, and returns with that asteroid destroyed and another one alive.
C20_Witness ==
    /\ Playing
    /\ \E direction \in {MOVE_LEFT, MOVE_RIGHT} :
          /\ CanMove(direction)
          /\ Cardinality(OnFootprint(BaseMoved(Here, direction))) = 1
          /\ move_base(Here, direction)[1].numAsteroids = numAsteroids - 1
          /\ move_base(Here, direction)[1].numAsteroids > 0

\* C21: after initialise_game and after every operation the live projectiles
\* are in non-increasing y order by index, each in a row 2..FIELD_HEIGHT-1 and
\* a column 0..FIELD_WIDTH-1; and in advance_projectiles the cell a projectile
\* moves to is held by none of the projectiles behind it in the list, which the
\* loop has not processed yet.
C21_ProjectilesOrdered ==
    /\ \A i, j \in 0..(numProjectiles - 1) :
          i < j => GET_Y_POSITION(projectiles[i]) >= GET_Y_POSITION(projectiles[j])
    /\ \A i \in 0..(numProjectiles - 1) :
          /\ GET_Y_POSITION(projectiles[i]) >= FIRE_ROW
          /\ GET_Y_POSITION(projectiles[i]) <= FIELD_HEIGHT - 1
          /\ GET_X_POSITION(projectiles[i]) >= 0
          /\ GET_X_POSITION(projectiles[i]) < FIELD_WIDTH
    /\ \A k \in 0..(numProjectiles - 1) :
          LET b == ProjectilesAfter(new_frame(Here), 0, k)
              posn == b[1].projectiles[b[2]]
              to == GAME_POSITION(GET_X_POSITION(posn), U8(GET_Y_POSITION(posn) + 1))
          IN  \A j \in (b[2] + 1)..(b[1].numProjectiles - 1) : b[1].projectiles[j] # to

\* advance_projectiles is called with two projectiles in one column, the
\* first right above the second.
C21_Witness ==
    /\ Playing
    /\ \E i, j \in 0..(numProjectiles - 1) :
          /\ i < j
          /\ GET_X_POSITION(projectiles[i]) = GET_X_POSITION(projectiles[j])
          /\ GET_Y_POSITION(projectiles[i]) = GET_Y_POSITION(projectiles[j]) + 1
    /\ \A t \in advance_projectiles(Here) : t.numProjectiles = numProjectiles

\* The state with the base in column b and one asteroid only, on the cell
\* (x, y) of the field: the columns random() yields in the model are not all
\* the columns an asteroid can be in.
OneAsteroid(b, x, y) ==
    [Here EXCEPT !.basePosition = b, !.numAsteroids = 1,
                 !.asteroids = [j \in {0} |-> GAME_POSITION(x, y)]]

\* The states in which check_all_base_hits is called: in move_base, with the
\* base in its new column, and in advance_asteroids, after the pass.
BaseHitChecks ==
    { BaseMoved(Here, direction) : direction \in { d \in {MOVE_LEFT, MOVE_RIGHT} : CanMove(d) } }
        \cup { AsteroidLoop(new_frame(Here), 0) }

\* C22: with the base in column 0 or FIELD_WIDTH-1, the base-hit check of the
\* footprint cell outside the field, (-1,0) or (FIELD_WIDTH,0), matches no
\* asteroid, destroys nothing and takes no life: the packed byte of that cell
\* is the packed byte of no cell of the field, so that an asteroid on any cell
\* of the field is not matched.
C22_OffFieldNeverHit ==
    /\ \A s \in BaseHitChecks :
          /\ s.basePosition = 0 =>
                /\ asteroid_at(s, s.basePosition - 1, 0) = -1
                /\ check_base_hit(s, s.basePosition - 1, 0) = s
          /\ s.basePosition = FIELD_WIDTH - 1 =>
                /\ asteroid_at(s, s.basePosition + 1, 0) = -1
                /\ check_base_hit(s, s.basePosition + 1, 0) = s
    /\ basePosition \in {0, FIELD_WIDTH - 1} =>
          \A x \in 0..(FIELD_WIDTH - 1), y \in 0..(FIELD_HEIGHT - 1) :
              LET s == OneAsteroid(basePosition, x, y)
                  out == IF basePosition = 0 THEN basePosition - 1 ELSE basePosition + 1
              IN  /\ GAME_POSITION(x, y) # GAME_POSITION(out, 0)
                  /\ asteroid_at(s, x, y) = 0
                  /\ check_base_hit(s, out, 0) = s

\* advance_asteroids is called with the base in the last column and brings an
\* asteroid to the bottom row; the base-hit check that follows takes no life.
C22_Witness ==
    /\ Playing
    /\ basePosition = FIELD_WIDTH - 1
    /\ AtBottom(AsteroidLoop(new_frame(Here), 0)) # {}
    /\ \A t \in advance_asteroids(Here) : t.lives = lives

\* C23: between start_spi_buffer and the next flush_spi_buffer no byte is
\* transmitted and no byte is stored outside buffer[]; the flush transmits the
\* bytes handed over since the start, each once and in their order, and leaves
\* buffering off and the buffer empty; a byte handed over after the flush is
\* transmitted at once.
C23_SpiBufferFaithful ==
    /\ stray = FALSE
    /\ phase = "buffering" => wire = <<>>
    /\ phase = "flushed" => wire = sent /\ buffering = 0 /\ bufferIndex = 0

====
